---- MODULE Spec2Model ----
(***************************************************************************)
(* dfa-identify: SAT based identification of minimal DFAs.                 *)
(*                                                                         *)
(* The model follows src/dfa_identify/identify.py: the generators          *)
(* find_dfas / find_models (with the round robin of the two conjectured    *)
(* sub-searches), find_dfa and order_models_by_stutter, run by a consumer  *)
(* that pulls results one at a time.  The encoding generator, the codec    *)
(* and the APTA (dfa_identify.encoding, dfa_identify.graphs) are not part  *)
(* of the sources at hand and are modelled from the specification, at the  *)
(* level of the assignments the clause set admits.  The SAT oracle is a    *)
(* deterministic enumerator whose branching order is unknown (oracle).     *)
(***************************************************************************)
EXTENDS Integers, Sequences, FiniteSets, TLC

\* ------------------------------------------------------------------ bounds
MaxLen == 1       \* longest example word
MaxK == 2         \* largest candidate size explored when no upper bound is given
MaxPulls == 4     \* results the consumer asks for at most

\* ------------------------------------------------------------ small helpers
Max(a, b) == IF a >= b THEN a ELSE b

Range(s) == {s[i] : i \in DOMAIN s}

\* Python's None for a bound of `bounds`.
NoBound == -1

\* Python's None for `alphabet`; a given alphabet is [given |-> TRUE, syms |-> S].
NoAlphabet == [given |-> FALSE, syms |-> {}]

ExampleSymbols == {0}

Words == UNION {[1..n -> ExampleSymbols] : n \in 0..MaxLen}

Alphabets == {NoAlphabet, [given |-> TRUE, syms |-> {}], [given |-> TRUE, syms |-> ExampleSymbols]}

\* ------------------------------------------------------------------- APTA
\* The symbols of the target DFA: the given alphabet, or the union of the
\* symbols of the example words.
apta_alphabet(accepting, rejecting, alphabet) ==
    IF alphabet.given THEN alphabet.syms
    ELSE UNION {Range(w) : w \in accepting \cup rejecting}

\* The nodes of the prefix tree: every prefix of every example word.
apta_nodes(accepting, rejecting) ==
    UNION {{SubSeq(w, 1, i) : i \in 0..Len(w)} : w \in accepting \cup rejecting}
        \cup {<<>>}

\* Breadth-first order of the nodes: by length, then by the symbols.
RECURSIVE LexLess(_, _)
LexLess(u, v) ==
    IF u = <<>> \/ v = <<>> THEN FALSE
    ELSE IF Head(u) # Head(v) THEN Head(u) < Head(v)
    ELSE LexLess(Tail(u), Tail(v))

BfsLess(u, v) == Len(u) < Len(v) \/ (Len(u) = Len(v) /\ LexLess(u, v))

APTA_from_examples(accepting, rejecting, alphabet) ==
    [nodes |-> apta_nodes(accepting, rejecting),
     accepting |-> accepting,
     rejecting |-> rejecting,
     alphabet |-> apta_alphabet(accepting, rejecting, alphabet)]

\* ------------------------------------------------------------------ codec
\* The codec of one candidate size: the semantic variables are the colour of
\* the root, the accepting bit of every colour and the target of every
\* (colour, symbol) pair; an assignment is the integer whose digits they are.
SymRank(alphabet, s) == Cardinality({t \in alphabet : t < s})

\* The number of assignments to the semantic variables of a codec.
n_assignments(codec) == codec.size

Codec_from_apta(apta, n_colors, sym_mode, extra_clauses) ==
    [n_colors |-> n_colors,
     apta |-> apta,
     sym_mode |-> sym_mode,
     extra_clauses |-> extra_clauses,
     n_symbols |-> Cardinality(apta.alphabet),
     rank |-> [s \in apta.alphabet |-> SymRank(apta.alphabet, s)],
     size |-> n_colors * (2 ^ n_colors)
                 * (n_colors ^ (n_colors * Cardinality(apta.alphabet)))]

\* The semantic reading of assignment m (an integer below n_assignments).
root_color(codec, m) == m % codec.n_colors

color_accepting(codec, m, c) == ((m \div codec.n_colors) \div (2 ^ c)) % 2 = 1

transition(codec, m, c, s) ==
    LET k == codec.n_colors
        p == c * codec.n_symbols + codec.rank[s]
    IN  ((m \div (k * (2 ^ k))) \div (k ^ p)) % k

\* The colour of an APTA node: the colour reached from the root's along its prefix.
RECURSIVE color_from(_, _, _, _)
color_from(codec, m, c, w) ==
    IF w = <<>> THEN c
    ELSE color_from(codec, m, transition(codec, m, c, Head(w)), Tail(w))

node_color(codec, m, n) == color_from(codec, m, root_color(codec, m), n)

\* non_stutter_lits: the transition literals (c, s) -> d with c # d.
non_stutter_count(codec, m) ==
    Cardinality({cs \in (0..(codec.n_colors - 1)) \X codec.apta.alphabet :
                    transition(codec, m, cs[1], cs[2]) # cs[1]})

\* len(non_stutter_lits): one literal per (c, s, d) with c # d.
n_non_stutter_lits(codec) ==
    codec.n_colors * (codec.n_colors - 1) * codec.n_symbols

\* ------------------------------------------------------------ the clauses
\* Accepting-label consistency, for the labelled nodes only.
LabelClauses(codec, m) ==
    /\ \A n \in codec.apta.accepting : color_accepting(codec, m, node_color(codec, m, n))
    /\ \A n \in codec.apta.rejecting : ~color_accepting(codec, m, node_color(codec, m, n))

\* Symmetry breaking "bfs": colours are discovered in the breadth-first order
\* of the APTA's nodes.
SymmetryClauses(codec, m) ==
    codec.sym_mode = "bfs" =>
        \A n \in codec.apta.nodes :
            node_color(codec, m, n)
                <= Cardinality({node_color(codec, m, u) :
                                   u \in {v \in codec.apta.nodes : BfsLess(v, n)}})

\* The caller's extra clauses, a function of the codec: none, "some colour
\* is rejecting" (one clause), a unit clause and its negation, "no colour
\* loops on itself" (one unit clause per self-loop transition literal), or
\* a variable of the caller's own, beyond the codec's, switched off (a
\* negated unit clause, which leaves the codec's variables free).
ExtraClauses(codec, m) ==
    CASE codec.extra_clauses = "none" -> TRUE
      [] codec.extra_clauses = "some_rejecting" ->
            \E c \in 0..(codec.n_colors - 1) : ~color_accepting(codec, m, c)
      [] codec.extra_clauses = "contradiction" ->
            color_accepting(codec, m, 0) /\ ~color_accepting(codec, m, 0)
      [] codec.extra_clauses = "no_stutter" ->
            \A c \in 0..(codec.n_colors - 1) : \A a \in codec.apta.alphabet :
                transition(codec, m, c, a) # c
      [] codec.extra_clauses = "aux_off" -> TRUE

\* Assignment m satisfies every clause of the codec's clause set: the
\* caller's extra clauses and the built-in clause groups.
satisfies(codec, m) ==
    /\ ExtraClauses(codec, m)
    /\ LabelClauses(codec, m)
    /\ SymmetryClauses(codec, m)

\* The clause set of a codec, as the set of its models.
encode_dfa_id(codec) ==
    {m \in 0..(n_assignments(codec) - 1) : satisfies(codec, m)}

\* The clause set of a codec has a model.
satisfiable(codec) == \E m \in 0..(n_assignments(codec) - 1) : satisfies(codec, m)

\* ------------------------------------------------------------ literal ids
\* The positive integer ids of the codec's variables: node-has-color, then
\* color-is-accepting, then transition(color, symbol) = color.
n_nodes(codec) == Cardinality(codec.apta.nodes)

color_node_var(codec, n, c) ==
    Cardinality({u \in codec.apta.nodes : BfsLess(u, n)}) * codec.n_colors + c + 1

color_accepting_var(codec, c) == n_nodes(codec) * codec.n_colors + c + 1

parent_relation_var(codec, c, a, d) ==
    n_nodes(codec) * codec.n_colors + codec.n_colors
        + (c * codec.n_symbols + codec.rank[a]) * codec.n_colors + d + 1

\* The highest id the codec has allocated.
max_id(codec) ==
    n_nodes(codec) * codec.n_colors + codec.n_colors
        + codec.n_colors * codec.n_symbols * codec.n_colors

\* The caller's extra clauses as lists of signed literals.
extra_clause_list(codec) ==
    CASE codec.extra_clauses = "none" -> {}
      [] codec.extra_clauses = "some_rejecting" ->
            {{-color_accepting_var(codec, c) : c \in 0..(codec.n_colors - 1)}}
      [] codec.extra_clauses = "contradiction" ->
            {{color_accepting_var(codec, 0)}, {-color_accepting_var(codec, 0)}}
      [] codec.extra_clauses = "no_stutter" ->
            {{-parent_relation_var(codec, c, a, c)} :
                 <<c, a>> \in (0..(codec.n_colors - 1)) \X codec.apta.alphabet}
      [] codec.extra_clauses = "aux_off" -> {{-(max_id(codec) + 1)}}

\* Clause group 1 (each node has a colour), a clause of positive literals
\* per node.  The other built-in groups hold literals of the codec's
\* variables only.
coloring_clauses(codec) ==
    {{color_node_var(codec, n, c) : c \in 0..(codec.n_colors - 1)} :
         n \in codec.apta.nodes}

clause_list(codec) == coloring_clauses(codec) \cup extra_clause_list(codec)

\* The variables that occur in the clauses, positively or negated.
clause_variables(codec) ==
    1..max_id(codec)
        \cup UNION {{IF l < 0 THEN -l ELSE l : l \in cl} : cl \in clause_list(codec)}

\* `top_id = max(map(max, clauses))`, then `max(codec.max_id, top_id)`: the
\* greatest signed literal of each clause, not the greatest variable.
top_id(codec) ==
    LET tops == {CHOOSE l \in cl : \A x \in cl : x <= l : cl \in clause_list(codec)}
    IN  Max(max_id(codec), CHOOSE t \in tops : \A u \in tops : u <= t)

\* ------------------------------------------------------------ extraction
extract_dfa(codec, m) ==
    [n_states |-> codec.n_colors,
     start |-> node_color(codec, m, <<>>),
     accepting |-> {c \in 0..(codec.n_colors - 1) : color_accepting(codec, m, c)},
     delta |-> [cs \in (0..(codec.n_colors - 1)) \X codec.apta.alphabet |->
                   transition(codec, m, cs[1], cs[2])]]

RECURSIVE dfa_run(_, _, _)
dfa_run(dfa, q, w) ==
    IF w = <<>> THEN q ELSE dfa_run(dfa, dfa.delta[<<q, Head(w)>>], Tail(w))

dfa_label(dfa, w) == dfa_run(dfa, dfa.start, w) \in dfa.accepting

\* ------------------------------------------------------- encoding generator
\* dfa_id_encodings: candidate sizes from the larger of 1 and the lower bound,
\* increasing by one, up to the upper bound (for ever when there is none).
first_n_colors(bounds) == IF bounds.lo = NoBound THEN 1 ELSE Max(1, bounds.lo)

encodings_exhausted(bounds, k) == bounds.hi # NoBound /\ k > bounds.hi

\* --------------------------------------------------------------- the state
VARIABLES
    args,        \* the arguments of the find_dfas call
    call,        \* "find_dfas" (a consumer iterating) or "find_dfa"
    oracle,      \* the branching order of the SAT oracle: "asc" or "desc"
    gen,         \* the find_models generators: "main", and "pos" / "neg"
    rr,          \* roundrobin's queue of the generators still running
    requesting,  \* the consumer is inside next()
    pulls,       \* next() calls made so far
    out,         \* the results produced so far, in order
    status,      \* "active", "exhausted" (StopIteration) or "error" (ValueError)
    ret,         \* find_dfa's return value
    log          \* the oracle sessions opened and closed so far, in order

vars == <<args, call, oracle, gen, rr, requesting, pulls, out, status, ret, log>>

GenIds == {"main", "pos", "neg"}

Frame(pc, accepting, rejecting) ==
    [pc |-> pc, accepting |-> accepting, rejecting |-> rejecting,
     k |-> 0, clauses |-> {}, sid |-> 0, pos |-> 0,
     lo |-> 0, hi |-> 0, candidate_bound |-> 0, bound |-> 0, models |-> 0,
     top_id |-> 0]

\* ---------------------------------------------------------------- oracle
\* A query: a clause set (its models), with a cardinality constraint on the
\* non-stutter literals ("none", "atmost", "equals").
Query(codec, clauses, card, bound) ==
    [codec |-> codec, clauses |-> clauses, card |-> card, bound |-> bound]

\* Faulty variant: the cardinality formula is not added to the session.
Models_unconstrained(q) == q.clauses

\* CardEnc.atmost / CardEnc.equals over non_stutter_lits, added to the clauses.
Models(q) ==
    CASE q.card = "none" -> q.clauses
      [] q.card = "atmost" ->
            {m \in q.clauses : non_stutter_count(q.codec, m) <= q.bound}
      [] q.card = "equals" ->
            {m \in q.clauses : non_stutter_count(q.codec, m) = q.bound}

\* The assignment the oracle examines at position p of its enumeration.
CodeAt(q, p) == IF oracle = "asc" THEN p ELSE n_assignments(q.codec) - 1 - p

\* The position of the next model at or after position p (n_assignments: none).
NextPos(q, p) ==
    LET ms == {x \in {IF oracle = "asc" THEN m ELSE n_assignments(q.codec) - 1 - m :
                         m \in Models(q)} : x >= p}
    IN  IF ms = {} THEN n_assignments(q.codec)
        ELSE CHOOSE x \in ms : \A y \in ms : x <= y

\* solver.solve() and solver.get_model(), from the position p0 of the first model.
solve(q, p0) == p0 < n_assignments(q.codec)

get_model(q, p0) == CodeAt(q, p0)

\* Session events of the log.
OpenEv(id, g, q, sat) ==
    [op |-> "open", id |-> id, gen |-> g, k |-> q.codec.n_colors,
     card |-> q.card, bound |-> q.bound, sat |-> sat]

CloseEv(id) ==
    [op |-> "close", id |-> id, gen |-> "", k |-> 0,
     card |-> "", bound |-> 0, sat |-> FALSE]

OpenSessions(l) ==
    {l[i].id : i \in {j \in DOMAIN l : l[j].op = "open"}}
        \ {l[i].id : i \in {j \in DOMAIN l : l[j].op = "close"}}

Queries(l) == SelectSeq(l, LAMBDA e : e.op = "open")

\* ------------------------------------------------------------ generators
\* Faulty variant: the example lists are passed to the APTA the wrong way round.
FrameCodec_swapped(f) ==
    Codec_from_apta(APTA_from_examples(f.rejecting, f.accepting, args.alphabet),
                    f.k, args.sym_mode, args.extra_clauses)

\* The codec of the generator's current candidate size, over the APTA of its
\* example lists.
FrameCodec(f) ==
    Codec_from_apta(APTA_from_examples(f.accepting, f.rejecting, args.alphabet),
                    f.k, args.sym_mode, args.extra_clauses)

\* Faulty variant: the queue is not rotated (the iterables are chained).
roundrobin_chain(q) == q

\* roundrobin (more_itertools): the generator that yielded goes to the back
\* of the queue, the one that ended leaves it.
roundrobin_yield(q) == IF q = <<>> THEN q ELSE Tail(q) \o <<Head(q)>>

roundrobin_stop(q) == Tail(q)

\* The generator that runs when the consumer asks for the next result.
Active == IF gen["main"].pc = "roundrobin" THEN Head(rr) ELSE "main"

\* Faulty variant: the generators run whether or not a result is asked for.
Running_eager(g) == g = Active

\* A generator body runs only inside the consumer's next() call, and only
\* the generator that call reaches.
Running(g) == requesting /\ g = Active

\* find_dfas decodes every (codec, m) find_models yields.  With the DFA go
\* the generator and size it comes from, the generators that have returned
\* and the number of log entries when it is produced.
Result(g, f, m) ==
    [src |-> g, k |-> f.k, m |-> m, dfa |-> extract_dfa(FrameCodec(f), m),
     ended |-> {h \in GenIds : gen[h].pc = "done"}, nlog |-> Len(log)]

\* The generator goes on running: nothing reaches the consumer yet.
Continue(g, f, evs) ==
    /\ gen' = [gen EXCEPT ![g] = f]
    /\ log' = log \o evs
    /\ UNCHANGED <<rr, requesting, out, status>>

\* The generator yields assignment m.
Yield(g, f, m, evs) ==
    /\ gen' = [gen EXCEPT ![g] = f]
    /\ log' = log \o evs
    /\ out' = Append(out, Result(g, f, m))
    /\ rr' = roundrobin_yield(rr)
    /\ requesting' = FALSE
    /\ UNCHANGED status

\* The generator returns (StopIteration).
Return(g, f, evs) ==
    /\ log' = log \o evs
    /\ UNCHANGED out
    /\ IF g = "main"
       THEN /\ gen' = [gen EXCEPT ![g] = f]
            /\ status' = "exhausted"
            /\ requesting' = FALSE
            /\ UNCHANGED rr
       ELSE /\ rr' = roundrobin_stop(rr)
            /\ IF roundrobin_stop(rr) = <<>>
               THEN /\ gen' = [gen EXCEPT ![g] = f, !["main"].pc = "done"]
                    /\ status' = "exhausted"
                    /\ requesting' = FALSE
               ELSE /\ gen' = [gen EXCEPT ![g] = f]
                    /\ UNCHANGED <<status, requesting>>

\* The generator raises: the error reaches the consumer.
Raise(g, f, evs) ==
    /\ gen' = [gen EXCEPT ![g] = f, !["main"].pc = "error"]
    /\ log' = log \o evs
    /\ status' = "error"
    /\ requesting' = FALSE
    /\ UNCHANGED <<rr, out>>

\* Faulty variant: the search gives up at the first unsatisfiable size.
AfterUnsat_return(g, f, evs) ==
    Return(g, [f EXCEPT !.pc = "done", !.clauses = {}], evs)

\* `if not solver.solve(): continue`: on to the next candidate size.
AfterUnsat(g, f, evs) ==
    Continue(g, [f EXCEPT !.k = f.k + 1, !.clauses = {}], evs)

\* Faulty variant: the lists are compared as wholes.
contradictory_equal(accepting, rejecting) == accepting = rejecting /\ accepting # {}

\* `set(accepting) & set(rejecting)`: some word is in both lists.
contradictory(accepting, rejecting) == accepting \cap rejecting # {}

\* Faulty variant: only an empty alphabet is refused, None is let through.
not_alphabet_empty_only(alphabet) == alphabet.given /\ alphabet.syms = {}

\* `not alphabet`: None, or an empty set.
not_alphabet(alphabet) == ~alphabet.given \/ alphabet.syms = {}

\* Faulty variant: the search goes on to larger sizes whatever allow_unminimized says.
AfterSize_continue(g, f, evs) ==
    Continue(g, [f EXCEPT !.pc = "for", !.k = f.k + 1, !.clauses = {},
                          !.sid = 0, !.pos = 0, !.models = 0], evs)

\* What find_models does once the models of size k are all yielded.
AfterSize(g, f, evs) ==
    IF args.allow_unminimized
    THEN Continue(g, [f EXCEPT !.pc = "for", !.k = f.k + 1, !.clauses = {},
                               !.sid = 0, !.pos = 0, !.models = 0], evs)
    ELSE Return(g, [f EXCEPT !.pc = "done", !.sid = 0, !.models = 0], evs)

\* find_models, from its call to the first candidate size
\* (contradiction, missing specification, the two conjectures).
find_models_start(g) ==
    /\ Running(g) /\ gen[g].pc = "start"
    /\ LET f == gen[g] IN
       IF contradictory(f.accepting, f.rejecting)
       THEN Return(g, [f EXCEPT !.pc = "done"], <<>>)
       ELSE IF f.accepting = {} /\ f.rejecting = {}
       THEN IF not_alphabet(args.alphabet)
            THEN Raise(g, [f EXCEPT !.pc = "error"], <<>>)
            ELSE /\ gen' = [gen EXCEPT ![g].pc = "roundrobin",
                                       !["pos"] = Frame("start", {<<>>}, {}),
                                       !["neg"] = Frame("start", {}, {<<>>})]
                 /\ rr' = <<"pos", "neg">>
                 /\ UNCHANGED <<log, requesting, out, status>>
       ELSE Continue(g, [f EXCEPT !.pc = "for", !.k = first_n_colors(args.bounds)], <<>>)
    /\ UNCHANGED <<args, call, oracle, pulls, ret>>

\* One turn of `for codec, clauses in encodings`: the session of size k.
find_models_for(g) ==
    /\ Running(g) /\ gen[g].pc = "for"
    /\ \E f \in {gen[g]} :
       IF encodings_exhausted(args.bounds, f.k)
       THEN Return(g, [f EXCEPT !.pc = "done"], <<>>)
       ELSE /\ f.k <= MaxK
            /\ \E q \in {Query(FrameCodec(f), encode_dfa_id(FrameCodec(f)),
                               "none", 0)} :
               \E p0 \in {NextPos(q, 0)} :
               LET id == Len(log) + 1
                   count == non_stutter_count(q.codec, get_model(q, p0))
               IN
               IF ~solve(q, p0)
               THEN AfterUnsat(g, f, <<OpenEv(id, g, q, FALSE), CloseEv(id)>>)
               ELSE IF ~args.order_by_stutter
               THEN Continue(g, [f EXCEPT !.pc = "enum", !.clauses = q.clauses,
                                          !.sid = id, !.pos = p0],
                             <<OpenEv(id, g, q, TRUE)>>)
               ELSE Continue(g, [f EXCEPT !.pc = "bsearch",
                                          !.clauses = q.clauses,
                                          !.candidate_bound = count,
                                          !.hi = count,
                                          !.lo = q.codec.n_colors - 1,
                                          !.models = 0,
                                          !.top_id = top_id(q.codec)],
                             <<OpenEv(id, g, q, TRUE), CloseEv(id)>>)
    /\ UNCHANGED <<args, call, oracle, pulls, ret>>

\* `yield from ((codec, m) for m in solver.enum_models())`: the next model.
find_models_enum(g) ==
    /\ Running(g) /\ gen[g].pc = "enum"
    /\ \E f \in {gen[g]} :
       \E q \in {Query(FrameCodec(f), f.clauses, "none", 0)} :
       \E p \in {NextPos(q, f.pos)} :
       IF p < n_assignments(q.codec)
       THEN Yield(g, [f EXCEPT !.pos = p + 1], CodeAt(q, p), <<>>)
       ELSE AfterSize(g, f, <<CloseEv(f.sid)>>)
    /\ UNCHANGED <<args, call, oracle, pulls, ret>>

\* ------------------------------------------------- order_models_by_stutter
\* Rebinding or dropping `models` closes the suspended inner generator, and
\* with it the session it holds.
DropModels(f) == IF f.models = 0 THEN <<>> ELSE <<CloseEv(f.models)>>

\* One turn of `while lo < hi` (an at-most-mid query), or the loop's exit.
order_models_bsearch(g) ==
    /\ Running(g) /\ gen[g].pc = "bsearch"
    /\ \E f \in {gen[g]} :
       \E mid \in {(f.lo + f.hi) \div 2} :
       \E q \in {Query(FrameCodec(f), f.clauses, "atmost", mid)} :
       \E p0 \in {NextPos(q, 0)} :
       LET id == Len(log) + Len(DropModels(f)) + 1
           count == non_stutter_count(q.codec, get_model(q, p0))
       IN
       IF f.lo < f.hi
       THEN IF solve(q, p0)
            THEN IF count <= mid
                 THEN Continue(g, [f EXCEPT !.hi = count, !.models = id],
                               DropModels(f) \o <<OpenEv(id, g, q, TRUE)>>)
                 ELSE Raise(g, [f EXCEPT !.pc = "error"],
                            DropModels(f) \o <<OpenEv(id, g, q, TRUE)>>)
            ELSE Continue(g, [f EXCEPT !.lo = mid + 1, !.models = 0],
                          DropModels(f) \o <<OpenEv(id, g, q, FALSE), CloseEv(id)>>)
       ELSE Continue(g, [f EXCEPT !.pc = "sweep", !.bound = f.lo], <<>>)
    /\ UNCHANGED <<args, call, oracle, pulls, ret>>

\* One turn of `for bound in range(lo, naive_bound + 1)`: the at-most-bound
\* probe when bound exceeds candidate_bound, then the exactly-bound query.
order_models_sweep(g) ==
    /\ Running(g) /\ gen[g].pc = "sweep"
    /\ \E f \in {gen[g]} :
       \E codec \in {FrameCodec(f)} :
       \E q1 \in {Query(codec, f.clauses, "atmost", f.bound)} :
       \E q2 \in {Query(codec, f.clauses, "equals", f.bound)} :
       \E p1 \in {NextPos(q1, 0)} :
       \E p2 \in {NextPos(q2, 0)} :
       LET probe == f.bound > f.candidate_bound
           id1 == Len(log) + 1
           evs1 == IF probe THEN <<OpenEv(id1, g, q1, solve(q1, p1)), CloseEv(id1)>>
                   ELSE <<>>
           id2 == Len(log) + Len(evs1) + 1
       IN
       IF f.bound > n_non_stutter_lits(codec)
       THEN AfterSize(g, f, DropModels(f))
       ELSE IF probe /\ ~solve(q1, p1)
       THEN AfterSize(g, f, evs1 \o DropModels(f))
       ELSE LET f1 == IF probe
                      THEN [f EXCEPT !.candidate_bound =
                                         non_stutter_count(codec, get_model(q1, p1))]
                      ELSE f
            IN  IF solve(q2, p2)
                THEN Continue(g, [f1 EXCEPT !.pc = "sweep_enum", !.sid = id2, !.pos = p2],
                              evs1 \o <<OpenEv(id2, g, q2, TRUE)>>)
                ELSE Continue(g, [f1 EXCEPT !.bound = f.bound + 1],
                              evs1 \o <<OpenEv(id2, g, q2, FALSE), CloseEv(id2)>>)
    /\ UNCHANGED <<args, call, oracle, pulls, ret>>

\* `yield from find_models(bound, CardEnc.equals)`: the next model.
order_models_sweep_enum(g) ==
    /\ Running(g) /\ gen[g].pc = "sweep_enum"
    /\ \E f \in {gen[g]} :
       \E q \in {Query(FrameCodec(f), f.clauses, "equals", f.bound)} :
       \E p \in {NextPos(q, f.pos)} :
       IF p < n_assignments(q.codec)
       THEN Yield(g, [f EXCEPT !.pos = p + 1], CodeAt(q, p), <<>>)
       ELSE Continue(g, [f EXCEPT !.pc = "sweep", !.bound = f.bound + 1,
                                  !.sid = 0, !.pos = 0],
                     <<CloseEv(f.sid)>>)
    /\ UNCHANGED <<args, call, oracle, pulls, ret>>

\* ------------------------------------------------------------- consumer
\* Faulty variant: find_dfa asks for two results before it returns.
PullLimit_two == IF call = "find_dfa" THEN 2 ELSE MaxPulls

\* next() calls a call makes at most: find_dfa is next(all_dfas, None).
PullLimit == IF call = "find_dfa" THEN 1 ELSE MaxPulls

\* The consumer asks for the next result.
Request ==
    /\ ~requesting /\ status = "active" /\ ~ret.returned
    /\ pulls < PullLimit
    /\ requesting' = TRUE
    /\ pulls' = pulls + 1
    /\ UNCHANGED <<args, call, oracle, gen, rr, out, status, ret, log>>

RECURSIVE CloseAll(_)
CloseAll(ids) ==
    IF ids = {} THEN <<>>
    ELSE LET i == CHOOSE x \in ids : \A y \in ids : x <= y
         IN  <<CloseEv(i)>> \o CloseAll(ids \ {i})

\* find_dfa returns the first result, or None; all_dfas is dropped.
find_dfa_return ==
    /\ call = "find_dfa" /\ pulls = PullLimit /\ ~requesting /\ ~ret.returned
    /\ status # "error"
    /\ ret' = [returned |-> TRUE, value |-> IF out = <<>> THEN <<>> ELSE <<Head(out)>>]
    /\ log' = log \o CloseAll(OpenSessions(log))
    /\ UNCHANGED <<args, call, oracle, gen, rr, requesting, pulls, out, status>>

\* ------------------------------------------------------------------ Init
BoundsSpace ==
    [lo : {NoBound, 0} \cup 2..MaxK, hi : {NoBound} \cup 1..MaxK]

ArgSpace ==
    {a \in [accepting : SUBSET Words, rejecting : SUBSET Words,
            sym_mode : {"bfs", "none"},
            extra_clauses : {"none", "some_rejecting", "contradiction", "no_stutter",
                             "aux_off"},
            bounds : BoundsSpace,
            order_by_stutter : BOOLEAN,
            alphabet : Alphabets,
            allow_unminimized : BOOLEAN] :
        a.alphabet.given /\ a.accepting \cup a.rejecting # {}
            => UNION {Range(w) : w \in a.accepting \cup a.rejecting} \subseteq a.alphabet.syms}

\* find_dfa passes its eight arguments on; allow_unminimized keeps its default.
find_dfa_args(a) == [a EXCEPT !.allow_unminimized = FALSE]

Init ==
    /\ call \in {"find_dfas", "find_dfa"}
    /\ \E a \in ArgSpace : args = IF call = "find_dfa" THEN find_dfa_args(a) ELSE a
    /\ oracle \in {"asc", "desc"}
    /\ gen = [g \in GenIds |->
                IF g = "main" THEN Frame("start", args.accepting, args.rejecting)
                ELSE Frame("none", {}, {})]
    /\ rr = <<>>
    /\ requesting = FALSE
    /\ pulls = 0
    /\ out = <<>>
    /\ status = "active"
    /\ ret = [returned |-> FALSE, value |-> <<>>]
    /\ log = <<>>

Next ==
    \/ Request
    \/ find_dfa_return
    \/ \E g \in GenIds : find_models_start(g)
    \/ \E g \in GenIds : find_models_for(g)
    \/ \E g \in GenIds : find_models_enum(g)
    \/ \E g \in GenIds : order_models_bsearch(g)
    \/ \E g \in GenIds : order_models_sweep(g)
    \/ \E g \in GenIds : order_models_sweep_enum(g)

Spec == Init /\ [][Next]_vars

\* ------------------------------------------------------------ properties
\* The codec of candidate size k for the example lists of generator g.
SizeCodec(g, k) ==
    Codec_from_apta(APTA_from_examples(gen[g].accepting, gen[g].rejecting,
                                       args.alphabet),
                    k, args.sym_mode, args.extra_clauses)

\* The non-self-loop transitions of a DFA.
dfa_non_stutter(dfa) == Cardinality({cs \in DOMAIN dfa.delta : dfa.delta[cs] # cs[1]})

Consistent(dfa) ==
    /\ \A w \in args.accepting : dfa_label(dfa, w)
    /\ \A w \in args.rejecting : ~dfa_label(dfa, w)

\* C1: when no word is in both lists, every DFA find_dfas produces, and the
\* DFA find_dfa returns, labels every accepting word true and every
\* rejecting word false.
C1_Soundness ==
    args.accepting \cap args.rejecting = {} =>
        /\ \A i \in DOMAIN out : Consistent(out[i].dfa)
        /\ \A i \in DOMAIN ret.value : Consistent(ret.value[i].dfa)

C1_Witness ==
    /\ ret.returned /\ ret.value # <<>>
    /\ args.accepting # {} /\ args.rejecting # {}
    /\ ret.value[1].dfa.n_states = 2

C3_SameSize ==
    ~args.allow_unminimized =>
        \A i \in DOMAIN out : \A j \in DOMAIN out :
            out[i].dfa.n_states = out[j].dfa.n_states

\* C4: when some word is in both lists, nothing is produced, find_dfa returns
\* None, no error is raised and no oracle session is opened.
C4_Contradiction ==
    args.accepting \cap args.rejecting # {} =>
        /\ out = <<>>
        /\ log = <<>>
        /\ status # "error"
        /\ (pulls > 0 /\ ~requesting => status = "exhausted")
        /\ (ret.returned => ret.value = <<>>)

C4_Witness ==
    /\ args.accepting \cap args.rejecting # {}
    /\ args.accepting # args.rejecting
    /\ status = "exhausted" /\ ret.returned

\* C5: when both lists are empty and no alphabet is given, the first request
\* ends in an error; nothing is produced and no oracle session is opened.
C5_MissingSpecification ==
    (args.accepting = {} /\ args.rejecting = {} /\ ~args.alphabet.given) =>
        /\ out = <<>>
        /\ log = <<>>
        /\ status # "exhausted"
        /\ ~ret.returned
        /\ (pulls > 0 /\ ~requesting => status = "error")

C5_Witness ==
    /\ args.accepting = {} /\ args.rejecting = {} /\ ~args.alphabet.given
    /\ status = "error"

OtherGen(g) == IF g = "pos" THEN "neg" ELSE "pos"

\* C6: with both lists empty and an alphabet given, the output interleaves
\* the results of the accepting conjecture ("pos") and of the rejecting one
\* ("neg"): it starts with pos and alternates while both still run, goes on
\* with the one left once the other has returned, holds no result twice, and
\* ends only when both have returned.
C6_FairInterleaving ==
    gen["pos"].pc # "none" =>
        /\ \A i \in DOMAIN out :
              /\ out[i].src \in {"pos", "neg"}
              /\ dfa_label(out[i].dfa, <<>>) <=> out[i].src = "pos"
              /\ (i = 1 /\ "pos" \notin out[i].ended) => out[i].src = "pos"
              /\ (i > 1 /\ OtherGen(out[i - 1].src) \notin out[i].ended)
                    => out[i].src = OtherGen(out[i - 1].src)
              /\ \A j \in DOMAIN out :
                    (i # j /\ out[i].src = out[j].src /\ out[i].k = out[j].k)
                        => out[i].m # out[j].m
        /\ status = "exhausted" => gen["pos"].pc = "done" /\ gen["neg"].pc = "done"

C6_Witness ==
    /\ gen["pos"].pc # "none" /\ Len(out) = 4
    /\ out[1].src = "pos" /\ out[2].src = "neg"
    /\ out[3].src = "pos" /\ out[4].src = "pos"

\* C7: with order_by_stutter, the non-stutter counts of the models a search
\* produces at one size never decrease, and the first of them has the least
\* non-stutter count of all models of that size's clause set.
C7_StutterMonotone ==
    args.order_by_stutter =>
        \A i \in DOMAIN out :
            /\ \A j \in DOMAIN out :
                  (i < j /\ out[i].src = out[j].src /\ out[i].k = out[j].k)
                      => dfa_non_stutter(out[i].dfa) <= dfa_non_stutter(out[j].dfa)
            /\ (\A j \in 1..(i - 1) : out[j].src # out[i].src \/ out[j].k # out[i].k)
                  => \A m \in encode_dfa_id(SizeCodec(out[i].src, out[i].k)) :
                        dfa_non_stutter(out[i].dfa)
                            <= non_stutter_count(SizeCodec(out[i].src, out[i].k), m)

\* C8: no result of one size is produced after a result of a larger size.
C8_IncreasingSizes ==
    \A i \in DOMAIN out : \A j \in DOMAIN out : i < j => out[i].k <= out[j].k

\* C9: find_dfa returns the first result of find_dfas for its arguments, or
\* None when there is none, and opens no oracle session beyond those opened
\* when that first result was produced.
C9_FindDfaIsFirst ==
    (call = "find_dfa" /\ ret.returned) =>
        /\ args.allow_unminimized = FALSE
        /\ Len(out) <= 1
        /\ ret.value = out
        /\ (out = <<>> => status = "exhausted")
        /\ (out # <<>> => Len(Queries(log)) = Len(Queries(SubSeq(log, 1, out[1].nlog))))
        /\ OpenSessions(log) = {}

C9_Witness ==
    /\ call = "find_dfa" /\ ret.returned /\ ret.value # <<>>
    /\ Len(Queries(log)) >= 2

\* Every candidate size of the range is unsatisfiable, for the example lists
\* of every search of the call.
Searches ==
    IF args.accepting = {} /\ args.rejecting = {} THEN {"pos", "neg"} ELSE {"main"}

AllUnsat ==
    \A g \in Searches :
        /\ gen[g].pc # "none"
        /\ \A k \in first_n_colors(args.bounds)..args.bounds.hi :
              ~satisfiable(SizeCodec(g, k))

SizeQueries(g) == SelectSeq(log, LAMBDA e : e.op = "open" /\ e.gen = g)

C11_Laziness ==
    [][Queries(log') # Queries(log)
          => requesting /\ pulls > 0 /\ ~ret.returned /\ status = "active"]_vars

\* The consumer has stopped after its first result, with a session of the
\* search still open and more models to come; dropping the generators closed it.
C11_Witness ==
    /\ ret.returned /\ ret.value # <<>>
    /\ gen["main"].pc = "enum"
    /\ Len(Queries(log)) >= 2
    /\ OpenSessions(log) = {}

\* C12: after every session event at most one session is open, and none is
\* open once the result sequence is exhausted.
C12_ScopedSessions ==
    /\ \A n \in 0..Len(log) : Cardinality(OpenSessions(SubSeq(log, 1, n))) <= 1
    /\ status = "exhausted" => OpenSessions(log) = {}

\* The least non-stutter count over the models of a generator's clause set.
min_non_stutter(g) ==
    LET counts == {non_stutter_count(FrameCodec(gen[g]), m) : m \in gen[g].clauses}
    IN  CHOOSE c \in counts : \A d \in counts : c <= d

\* C13: when the binary search of order_models_by_stutter has ended, lo
\* equals hi and is the least non-stutter count over all models of the
\* clause set.
C13_BinarySearchResult ==
    \A g \in GenIds :
        gen[g].pc \in {"sweep", "sweep_enum"} =>
            /\ gen[g].lo = gen[g].hi
            /\ gen[g].lo = min_non_stutter(g)

\* C14: at every size the stutter search is run for, every model of the
\* clause set has at least n_colors - 1 non-stutter transitions, so the
\* initial lo exceeds neither the least count nor the witness's count.
C14_LowerBoundValid ==
    \A g \in GenIds :
        gen[g].pc \in {"bsearch", "sweep", "sweep_enum"} =>
            /\ \A m \in gen[g].clauses :
                  non_stutter_count(FrameCodec(gen[g]), m) >= gen[g].k - 1
            /\ gen[g].pc = "bsearch" => gen[g].k - 1 <= gen[g].candidate_bound

\* C15: every turn of the binary search taken with lo < hi leaves the search
\* running (the assertion hi <= mid does not fail), lowers hi to at most mid
\* when the at-most-mid query has a witness and raises lo otherwise, so
\* hi - lo strictly shrinks.
C15_AssertionHolds ==
    [][\A g \in GenIds :
          (gen[g].pc = "bsearch" /\ gen[g].lo < gen[g].hi /\ gen'[g] # gen[g]) =>
              /\ gen'[g].pc = "bsearch"
              /\ status' # "error"
              /\ gen'[g].hi - gen'[g].lo < gen[g].hi - gen[g].lo
              /\ \/ /\ gen'[g].lo = gen[g].lo
                    /\ gen'[g].hi <= (gen[g].lo + gen[g].hi) \div 2
                 \/ /\ gen'[g].hi = gen[g].hi
                    /\ gen'[g].lo = (gen[g].lo + gen[g].hi) \div 2 + 1]_vars

\* The at-most-mid query of a turn of the binary search has had a witness,
\* whose count is the new hi.
C15_Witness ==
    /\ gen["main"].pc = "bsearch" /\ gen["main"].models # 0
    /\ gen["main"].hi < gen["main"].candidate_bound
    /\ gen["main"].lo = gen["main"].hi

\* The search g has found its satisfiable size.
found_size(g) ==
    \E i \in DOMAIN log :
        log[i].op = "open" /\ log[i].gen = g /\ log[i].card = "none" /\ log[i].sat

\* C16: once a search run with order_by_stutter (and allow_unminimized
\* false) has returned after its satisfiable size k, the DFAs it has
\* produced are exactly the DFAs decoded from the models of the clause set
\* of size k, the ones plain enumeration produces.
C16_OnlyReorders ==
    \A g \in Searches :
        (/\ args.order_by_stutter /\ ~args.allow_unminimized
         /\ gen[g].pc = "done" /\ found_size(g)) =>
            {out[i].dfa : i \in {j \in DOMAIN out : out[j].src = g}}
                = {extract_dfa(SizeCodec(g, gen[g].k), m) :
                       m \in encode_dfa_id(SizeCodec(g, gen[g].k))}

\* C17: during a run of order_models_by_stutter, top_id is at least the id
\* of every variable that occurs in the clauses (the codec's and the extra
\* clauses', positive or negated), and top_id and the clause set are the
\* ones the run started with.
C17_FreshIds ==
    \A g \in GenIds :
        gen[g].pc \in {"bsearch", "sweep", "sweep_enum"} =>
            /\ \A v \in clause_variables(FrameCodec(gen[g])) : v <= gen[g].top_id
            /\ gen[g].top_id = top_id(FrameCodec(gen[g]))
            /\ gen[g].clauses = encode_dfa_id(FrameCodec(gen[g]))

====
